---- MODULE Spec2Model ----
(***************************************************************************)
(* Least-squares Monte Carlo pricing of an American put (AmOption.ipynb).  *)
(*                                                                         *)
(* The notebook computes in float64.  Here every quantity is an exact      *)
(* rational: prices and strikes are integers (the worked example is in     *)
(* cents), the one-period discount factor exp(-r*dt) is a rational         *)
(* dfNum/dfDen, and exp(-r*dt*k) is its k-th power.  Integers that do not  *)
(* fit a machine word are kept as sequences of limbs.                      *)
(***************************************************************************)
EXTENDS Integers, Sequences, FiniteSets, TLC

(***************************************************************************)
(* Exact integers.  A value is a sequence of limbs, least significant      *)
(* first, standing for the sum of a[i] * Base^(i-1).  In normal form the   *)
(* limbs are in 0..Base-1, a negative number ends with the limb -1, and    *)
(* zero is the empty sequence.                                             *)
(***************************************************************************)
Base == 1000

RECURSIVE Carry(_, _, _)
Carry(a, i, c) ==
    IF i > Len(a)
    THEN IF c = 0 THEN <<>>
         ELSE IF c = -1 THEN <<-1>>
         ELSE <<c % Base>> \o Carry(a, i, c \div Base)
    ELSE LET v == a[i] + c
         IN  <<v % Base>> \o Carry(a, i + 1, v \div Base)

RECURSIVE Trim(_)
Trim(a) ==
    IF a = <<>> THEN a
    ELSE IF a[Len(a)] = 0 THEN Trim(SubSeq(a, 1, Len(a) - 1))
    ELSE IF Len(a) >= 2 /\ a[Len(a)] = -1 /\ a[Len(a) - 1] = Base - 1
         THEN Trim(SubSeq(a, 1, Len(a) - 2) \o <<-1>>)
    ELSE a

Norm(a) == Trim(Carry(a, 1, 0))

Big(k) == Norm(<<k>>)

Limb(a, i) == IF i <= Len(a) THEN a[i] ELSE 0

Sign(a) == IF a = <<>> THEN 0 ELSE IF a[Len(a)] < 0 THEN -1 ELSE 1

Neg(a) == Norm([i \in 1..Len(a) |-> -a[i]])

Add(a, b) ==
    LET n == IF Len(a) >= Len(b) THEN Len(a) ELSE Len(b)
    IN  Norm([i \in 1..n |-> Limb(a, i) + Limb(b, i)])

Sub(a, b) ==
    LET n == IF Len(a) >= Len(b) THEN Len(a) ELSE Len(b)
    IN  Norm([i \in 1..n |-> Limb(a, i) - Limb(b, i)])

RECURSIVE ConvAt(_, _, _, _)
ConvAt(a, b, k, i) ==
    IF i > Len(a) \/ i > k THEN 0
    ELSE (IF k + 1 - i <= Len(b) THEN a[i] * b[k + 1 - i] ELSE 0)
         + ConvAt(a, b, k, i + 1)

Mul(a, b) ==
    IF a = <<>> \/ b = <<>> THEN <<>>
    ELSE Norm([k \in 1..(Len(a) + Len(b) - 1) |-> ConvAt(a, b, k, 1)])

RECURSIVE Pow(_, _)
Pow(a, k) == IF k = 0 THEN Big(1) ELSE Mul(a, Pow(a, k - 1))

(***************************************************************************)
(* Exact rationals [num, den] with den > 0.  Sums of equal denominators    *)
(* keep the denominator, so the numbers of one regression stay on one      *)
(* common denominator.                                                     *)
(***************************************************************************)
Rat(k) == [num |-> Big(k), den |-> Big(1)]

RatMul(a, b) == [num |-> Mul(a.num, b.num), den |-> Mul(a.den, b.den)]

RatAdd(a, b) ==
    IF a.den = b.den
    THEN [num |-> Add(a.num, b.num), den |-> a.den]
    ELSE [num |-> Add(Mul(a.num, b.den), Mul(b.num, a.den)),
          den |-> Mul(a.den, b.den)]

RatScale(a, k) == [num |-> Mul(k, a.num), den |-> a.den]

RatSign(a) == Sign(a.num)

RatCmp(a, b) == Sign(Sub(Mul(a.num, b.den), Mul(b.num, a.den)))

RatGt(a, b) == RatCmp(a, b) > 0

RatEq(a, b) == RatCmp(a, b) = 0

RatDivBig(a, d) ==
    IF Sign(d) > 0
    THEN [num |-> a.num, den |-> Mul(a.den, d)]
    ELSE [num |-> Neg(a.num), den |-> Mul(a.den, Neg(d))]

RECURSIVE RatSum(_, _)
RatSum(f, n) == IF n = 0 THEN Rat(0) ELSE RatAdd(RatSum(f, n - 1), f[n])

RECURSIVE BigSum(_, _)
BigSum(f, n) == IF n = 0 THEN Big(0) ELSE Add(BigSum(f, n - 1), f[n])

(***************************************************************************)
(* The objects of the notebook and the locals of one priceAmByLSMC call.   *)
(*   stockObj   [s0, df]: df is exp(-r * getDt()), the one-period discount *)
(*              factor that the rate r gives, as a pair <<num, den>>       *)
(*   optionObj  [nSteps, strike]                                           *)
(*   modelObj   [numberOfPaths, nSteps]                                    *)
(*   samplePaths  rows = paths, columns = time 0 .. nSteps                 *)
(*   regDF      the data frame regressionFunction returns: the kept rows   *)
(* Sequences are 1-based: column i of the code is index i + 1 here.        *)
(*                                                                         *)
(* The notebook session around the call:                                   *)
(*   rngState       the state of numpy's global random generator           *)
(*   randomNumbers  what generateRandonNumbers returned last               *)
(*   lastSeed       the seed it was given (history)                        *)
(*   previous       the inputs and results of the call before this one     *)
(*                  (history)                                              *)
(* and the data frames of the notebook's walk-through cells.               *)
(***************************************************************************)
VARIABLES stockObj, optionObj, modelObj, samplePaths,
          pc, t, payoffMatrix, exerciseDecisionMatrix, discountFactors,
          results_dict, contValue, V, error, regDF, eurCall,
          rngState, randomNumbers, lastSeed, previous,
          cashFlowMetricsTime3, optimalExercise2, cashFlowMetricsTime2,
          optimalExercise1, cashFlowMetricsTime1, paramsTime2, paramsTime1

objs == <<stockObj, optionObj, modelObj, samplePaths>>

locals == <<pc, t, payoffMatrix, exerciseDecisionMatrix, discountFactors,
            results_dict, contValue, V, error, regDF>>

session == <<rngState, randomNumbers, lastSeed, previous>>

walkthrough == <<cashFlowMetricsTime3, optimalExercise2, cashFlowMetricsTime2,
                 optimalExercise1, cashFlowMetricsTime1, paramsTime2,
                 paramsTime1>>

vars == <<objs, locals, eurCall, session, walkthrough>>

nRows(m) == Len(m)

nCols(m) == IF Len(m) = 0 THEN 0 ELSE Len(m[1])

(* np.exp(-r * dt * k), for 0 <= k <= nSteps: the k-th power of the        *)
(* one-period factor, written over the denominator den^nSteps              *)
Exp(k) ==
    [num |-> Mul(Pow(Big(stockObj.df[1]), k),
                 Pow(Big(stockObj.df[2]), optionObj.nSteps - k)),
     den |-> Pow(Big(stockObj.df[2]), optionObj.nSteps)]

(* payOff without np.maximum: the payoff of a forward sale at the strike *)
payOffUnclipped(x) == Rat(optionObj.strike - x)

(* AmOption.payOff on one price *)
payOff(x) ==
    IF optionObj.strike - x > 0 THEN Rat(optionObj.strike - x) ELSE Rat(0)

(* np.where(v >= 0, 1, 0) on one entry *)
IndicatorOfNonNegative(v) == IF RatSign(v) >= 0 THEN 1 ELSE 0

(* np.where(v > 0, 1, 0) on one entry *)
Indicator(v) == IF RatSign(v) > 0 THEN 1 ELSE 0

(***************************************************************************)
(* regressionFunction.  Y is the row sum of payoff * exercise * discount,  *)
(* X the first column of the price cross-section, and only the rows with   *)
(* X < strike are kept.  sm.add_constant leaves the constant column out    *)
(* when X is already a nonzero constant over the kept rows, and sm.OLS     *)
(* solves by the pseudo-inverse: the least-squares solution of least norm. *)
(* The result is [raises, params]; params has no "const" key when the      *)
(* constant column was left out.                                           *)
(***************************************************************************)
(* line 168 with dfs read from its end: the newest factor on the nearest   *)
(* column                                                                  *)
RegYNewestFirst(pathCrossSectionPayOff, exerciseD, dfs) ==
    [p \in 1..Len(pathCrossSectionPayOff) |->
        RatSum([j \in 1..Len(dfs) |->
                   RatMul(RatMul(pathCrossSectionPayOff[p][j],
                                 Rat(exerciseD[p][j])), dfs[Len(dfs) + 1 - j])],
               Len(dfs))]

RegY(pathCrossSectionPayOff, exerciseD, dfs) ==
    [p \in 1..Len(pathCrossSectionPayOff) |->
        RatSum([j \in 1..Len(dfs) |->
                   RatMul(RatMul(pathCrossSectionPayOff[p][j],
                                 Rat(exerciseD[p][j])), dfs[j])],
               Len(dfs))]

(* the regression without the filter of line 172: every row is kept *)
EveryPath(X) == [p \in 1..Len(X) |-> p]

(* regression[regression['X'] < strike]: the kept rows, in order *)
InTheMoney(X) == SelectSeq([p \in 1..Len(X) |-> p], LAMBDA p : X[p] < optionObj.strike)

(* sum over the kept rows of X^k *)
PowerSum(X, rows, k) ==
    BigSum([i \in 1..Len(rows) |-> Pow(Big(X[rows[i]]), k)], Len(rows))

(* sum over the kept rows of X^k * Y *)
MomentSum(X, Y, rows, k) ==
    RatSum([i \in 1..Len(rows) |->
               RatScale(Y[rows[i]], Pow(Big(X[rows[i]]), k))],
           Len(rows))

Levels(X, rows) == {X[rows[i]] : i \in 1..Len(rows)}

(* the solution of the normal equations from the cofactors of the moment   *)
(* matrix (n S1 S2 / S1 S2 S3 / S2 S3 S4) and its determinant              *)
SolveByCofactors(C00, C01, C02, C11, C12, C22, det, T0, T1, T2) ==
    [const     |-> RatDivBig(RatAdd(RatAdd(RatScale(T0, C00), RatScale(T1, C01)),
                                    RatScale(T2, C02)), det),
     X         |-> RatDivBig(RatAdd(RatAdd(RatScale(T0, C01), RatScale(T1, C11)),
                                    RatScale(T2, C12)), det),
     X_Squared |-> RatDivBig(RatAdd(RatAdd(RatScale(T0, C02), RatScale(T1, C12)),
                                    RatScale(T2, C22)), det)]

NormalEquations(n, S1, S2, S3, S4, T0, T1, T2) ==
    SolveByCofactors(Sub(Mul(S2, S4), Mul(S3, S3)),
                     Sub(Mul(S2, S3), Mul(S1, S4)),
                     Sub(Mul(S1, S3), Mul(S2, S2)),
                     Sub(Mul(n, S4), Mul(S2, S2)),
                     Sub(Mul(S1, S2), Mul(n, S3)),
                     Sub(Mul(n, S2), Mul(S1, S1)),
                     Add(Add(Mul(n, Sub(Mul(S2, S4), Mul(S3, S3))),
                             Mul(S1, Sub(Mul(S2, S3), Mul(S1, S4)))),
                         Mul(S2, Sub(Mul(S1, S3), Mul(S2, S2)))),
                     T0, T1, T2)

(* three or more distinct prices: ordinary least squares on 1, X, X^2 *)
FitFullRank(X, Y, rows) ==
    NormalEquations(Big(Len(rows)),
                    PowerSum(X, rows, 1), PowerSum(X, rows, 2),
                    PowerSum(X, rows, 3), PowerSum(X, rows, 4),
                    MomentSum(X, Y, rows, 0), MomentSum(X, Y, rows, 1),
                    MomentSum(X, Y, rows, 2))

(* the mean of Y over the kept rows whose price is x *)
MeanOver(Y, at, scale) ==
    RatDivBig(RatScale(RatSum([i \in 1..Len(at) |-> Y[at[i]]], Len(at)),
                       Big(scale \div Len(at))),
              Big(scale))

(* written over scale times the common denominator; scale is a multiple of *)
(* the number of rows at x                                                 *)
LevelMean(X, Y, rows, x, scale) ==
    MeanOver(Y, SelectSeq(rows, LAMBDA p : X[p] = x), scale)

CountAt(X, rows, x) == Len(SelectSeq(rows, LAMBDA p : X[p] = x))

(* two distinct prices x1 < x2: every quadratic through the two level      *)
(* means z1, z2 is a least-squares fit; the pseudo-inverse gives the one   *)
(* of least norm, B^T (B B^T)^-1 z with B the rows (1, x, x^2) of the two  *)
(* levels and a11, a12, a22 the entries of B B^T                           *)
LeastNorm(x1, x2, w1, w2, dd) ==
    [const     |-> RatDivBig(RatAdd(w1, w2), dd),
     X         |-> RatDivBig(RatAdd(RatScale(w1, Big(x1)), RatScale(w2, Big(x2))), dd),
     X_Squared |-> RatDivBig(RatAdd(RatScale(w1, Big(x1 * x1)),
                                    RatScale(w2, Big(x2 * x2))), dd)]

TwoLevels(x1, x2, z1, z2, a11, a12, a22) ==
    LeastNorm(x1, x2,
              RatAdd(RatScale(z1, a22), RatScale(z2, Neg(a12))),
              RatAdd(RatScale(z2, a11), RatScale(z1, Neg(a12))),
              Sub(Mul(a11, a22), Mul(a12, a12)))

LowLevel(X, rows) ==
    CHOOSE x \in Levels(X, rows) : \A y \in Levels(X, rows) : x <= y

HighLevel(X, rows) ==
    CHOOSE x \in Levels(X, rows) : \A y \in Levels(X, rows) : x >= y

FitTwoLevelsAt(X, Y, rows, x1, x2) ==
    TwoLevels(x1, x2,
              LevelMean(X, Y, rows, x1, CountAt(X, rows, x1) * CountAt(X, rows, x2)),
              LevelMean(X, Y, rows, x2, CountAt(X, rows, x1) * CountAt(X, rows, x2)),
              Big(1 + x1 * x1 + x1 * x1 * x1 * x1),
              Big(1 + x1 * x2 + x1 * x1 * x2 * x2),
              Big(1 + x2 * x2 + x2 * x2 * x2 * x2))

FitTwoLevels(X, Y, rows) ==
    FitTwoLevelsAt(X, Y, rows, LowLevel(X, rows), HighLevel(X, rows))

(* one price x on every kept row: no constant column, and the fit of       *)
(* least norm of mean(Y) = b1 * x + b2 * x^2                               *)
OneLevel(x, m) ==
    [X         |-> RatDivBig(RatScale(m, Big(x)), Big(x * x + x * x * x * x)),
     X_Squared |-> RatDivBig(RatScale(m, Big(x * x)), Big(x * x + x * x * x * x))]

FitOneLevel(X, Y, rows) ==
    OneLevel(X[rows[1]], LevelMean(X, Y, rows, X[rows[1]], Len(rows)))

(* the frame after lines 172-174: the kept rows under their pandas index   *)
(* (the 0-based path number), with Y, X and X_Squared                      *)
RegressionFrame(X, Y, rows) ==
    [i \in 1..Len(rows) |->
        [index |-> rows[i] - 1, Y |-> Y[rows[i]], X |-> X[rows[i]],
         X_Squared |-> X[rows[i]] * X[rows[i]]]]

FitRows(X, Y, rows, k) ==
    IF Len(X) # Len(Y)
    THEN [raises |-> "ValueError", line |-> 170]
    ELSE IF k = 0
    THEN [raises |-> "ValueError", line |-> 183]
    ELSE [raises |-> "none",
          params |-> IF k = 1 THEN FitOneLevel(X, Y, rows)
                     ELSE IF k = 2 THEN FitTwoLevels(X, Y, rows)
                     ELSE FitFullRank(X, Y, rows),
          regression |-> RegressionFrame(X, Y, rows)]

FitKept(X, Y, rows) == FitRows(X, Y, rows, Cardinality(Levels(X, rows)))

FitXY(X, Y) == FitKept(X, Y, InTheMoney(X))

regressionFunction(pathCrossSectionPayOff, pathCrossSectionTminus1, exerciseD, dfs) ==
    FitXY([p \in 1..Len(pathCrossSectionTminus1) |-> pathCrossSectionTminus1[p][1]],
          RegY(pathCrossSectionPayOff, exerciseD, dfs))

(***************************************************************************)
(* getContinuationValue: const + X * price + X_Squared * price^2 on every  *)
(* path; reading params['const'] raises KeyError when the key is absent.   *)
(***************************************************************************)
HasConst(params) == "const" \in DOMAIN params

(* line 193 without its last term: a fit read as a straight line *)
getLinearContinuationValue(params, pathCrossSectionTminus1) ==
    [p \in 1..Len(pathCrossSectionTminus1) |->
        RatAdd(params.const, RatMul(params.X, Rat(pathCrossSectionTminus1[p])))]

getContinuationValue(params, pathCrossSectionTminus1) ==
    [p \in 1..Len(pathCrossSectionTminus1) |->
        LET x == pathCrossSectionTminus1[p]
        IN  RatAdd(RatAdd(params.const, RatMul(params.X, Rat(x))),
                   RatMul(params.X_Squared, Rat(x * x)))]

(***************************************************************************)
(* priceAmByLSMC(samplePaths, dt), called with dt = getDt(), in three      *)
(* steps: the lines before the loop, one iteration of the loop, and the    *)
(* lines after it.  An exception ends the call: pc = "error", and error    *)
(* names the exception and the line that raises it.                        *)
(***************************************************************************)
NoError == [kind |-> "none", line |-> 0]

(* numpy broadcasts a vector of length 1 or of the target's length *)
Broadcasts(len, target) == len = target \/ len = 1

(* the column before column j: the price matrix read with the index of the *)
(* payoff matrix                                                           *)
PriceColumnOneBack(j) ==
    [p \in 1..modelObj.numberOfPaths |->
        samplePaths[IF nRows(samplePaths) = 1 THEN 1 ELSE p][j - 1]]

(* column j (1-based) of samplePaths, broadcast to numberOfPaths entries *)
PriceColumn(j) ==
    [p \in 1..modelObj.numberOfPaths |->
        samplePaths[IF nRows(samplePaths) = 1 THEN 1 ELSE p][j]]

Initialize ==
    /\ pc = "start"
    /\ LET N == modelObj.numberOfPaths
           n == modelObj.nSteps
           C == nCols(samplePaths)
           last == PriceColumn(C)
       IN  IF C = 0 \/ n = 0
           THEN /\ pc' = "error"
                /\ error' = [kind |-> "IndexError", line |-> 203]
                /\ UNCHANGED <<t, payoffMatrix, exerciseDecisionMatrix>>
           ELSE IF ~Broadcasts(nRows(samplePaths), N)
           THEN /\ pc' = "error"
                /\ error' = [kind |-> "ValueError", line |-> 203]
                /\ UNCHANGED <<t, payoffMatrix, exerciseDecisionMatrix>>
           ELSE /\ pc' = "loop"
                /\ t' = n - 2
                /\ payoffMatrix' =
                       [p \in 1..N |-> [i \in 1..n |->
                           IF i = n THEN payOff(last[p]) ELSE Rat(0)]]
                /\ exerciseDecisionMatrix' =
                       [p \in 1..N |-> [i \in 1..n |->
                           IF i = n THEN Indicator(payOff(last[p])) ELSE 0]]
                /\ error' = NoError
    /\ discountFactors' = <<>>
    /\ results_dict' = <<>>
    /\ UNCHANGED <<objs, contValue, V, regDF, eurCall, session, walkthrough>>

(* line 238 without its second conjunct *)
ExerciseAboveContinuation(immediatePayoff, continuation) ==
    RatGt(immediatePayoff, continuation)

(* line 238: the exercise condition of one path *)
ExerciseCondition(immediatePayoff, continuation) ==
    RatGt(immediatePayoff, continuation) /\ RatSign(immediatePayoff) > 0

(* line 240 without line 244: the later columns keep their cash flows *)
PayoffRowKeepingLater(row, condition) ==
    [i \in 1..Len(row) |->
        IF i = t + 1 THEN (IF condition THEN row[i] ELSE Rat(0)) ELSE row[i]]

(* line 244 on every row: the later columns cleared whatever the decision *)
PayoffRowClearingLater(row, condition) ==
    [i \in 1..Len(row) |->
        IF i = t + 1 THEN (IF condition THEN row[i] ELSE Rat(0))
        ELSE IF i > t + 1 THEN Rat(0)
        ELSE row[i]]

(* lines 240 and 244: one row of payoffMatrix after the decision at column *)
(* t (index t + 1)                                                         *)
PayoffRowAfter(row, condition) ==
    [i \in 1..Len(row) |->
        IF i = t + 1 THEN (IF condition THEN row[i] ELSE Rat(0))
        ELSE IF i > t + 1 /\ condition THEN Rat(0)
        ELSE row[i]]

(* line 246 without line 241: column t keeps the indicator of line 215 *)
ExerciseRowKeepingImmediate(row, condition) ==
    [i \in 1..Len(row) |->
        IF i > t + 1 /\ condition THEN 0 ELSE row[i]]

(* line 241 without line 246: the later columns keep their indicators *)
ExerciseRowKeepingLater(row, condition) ==
    [i \in 1..Len(row) |->
        IF i = t + 1 THEN (IF condition THEN 1 ELSE 0) ELSE row[i]]

(* line 246 on every row: the later indicators cleared whatever the        *)
(* decision                                                                *)
ExerciseRowClearingLater(row, condition) ==
    [i \in 1..Len(row) |->
        IF i = t + 1 THEN (IF condition THEN 1 ELSE 0)
        ELSE IF i > t + 1 THEN 0
        ELSE row[i]]

(* lines 241 and 246: one row of exerciseDecisionMatrix after the decision *)
ExerciseRowAfter(row, condition) ==
    [i \in 1..Len(row) |->
        IF i = t + 1 THEN (IF condition THEN 1 ELSE 0)
        ELSE IF i > t + 1 /\ condition THEN 0
        ELSE row[i]]

(* m[:, j:] for a 1-based first column j *)
ColumnsFrom(m, j) == [p \in 1..Len(m) |-> SubSeq(m[p], j, Len(m[p]))]

(* lines 235-246 with the loop stepping down by two *)
DecideSkipping(pm1, ed1, dfs, params, cv, frame) ==
    /\ pc' = "loop"
    /\ t' = t - 2
    /\ error' = NoError
    /\ payoffMatrix' =
           [p \in 1..Len(pm1) |->
               PayoffRowAfter(pm1[p], ExerciseCondition(pm1[p][t + 1], cv[p]))]
    /\ exerciseDecisionMatrix' =
           [p \in 1..Len(ed1) |->
               ExerciseRowAfter(ed1[p], ExerciseCondition(pm1[p][t + 1], cv[p]))]
    /\ discountFactors' = dfs
    /\ results_dict' = Append(results_dict, [step |-> t, coefficients |-> params])
    /\ contValue' = cv
    /\ regDF' = frame

(* lines 235-246, reached when the fit has its three coefficients *)
Decide(pm1, ed1, dfs, params, cv, frame) ==
    /\ pc' = "loop"
    /\ t' = t - 1
    /\ error' = NoError
    /\ payoffMatrix' =
           [p \in 1..Len(pm1) |->
               PayoffRowAfter(pm1[p], ExerciseCondition(pm1[p][t + 1], cv[p]))]
    /\ exerciseDecisionMatrix' =
           [p \in 1..Len(ed1) |->
               ExerciseRowAfter(ed1[p], ExerciseCondition(pm1[p][t + 1], cv[p]))]
    /\ discountFactors' = dfs
    /\ results_dict' = Append(results_dict, [step |-> t, coefficients |-> params])
    /\ contValue' = cv
    /\ regDF' = frame

(* lines 224-235: the fit, and what its failure leaves behind *)
Regress(pm1, ed1, dfs, price, reg) ==
    IF reg.raises # "none"
    THEN /\ pc' = "error"
         /\ error' = [kind |-> reg.raises, line |-> reg.line]
         /\ payoffMatrix' = pm1
         /\ exerciseDecisionMatrix' = ed1
         /\ discountFactors' = dfs
         /\ UNCHANGED <<t, results_dict, contValue, regDF>>
    ELSE IF ~HasConst(reg.params)
    THEN /\ pc' = "error"
         /\ error' = [kind |-> "KeyError", line |-> 189]
         /\ payoffMatrix' = pm1
         /\ exerciseDecisionMatrix' = ed1
         /\ discountFactors' = dfs
         /\ results_dict' = Append(results_dict,
                                   [step |-> t, coefficients |-> reg.params])
         /\ regDF' = reg.regression
         /\ UNCHANGED <<t, contValue>>
    ELSE Decide(pm1, ed1, dfs, reg.params,
                getContinuationValue(reg.params, price), reg.regression)

(* lines 214-224: the immediate payoff in column t, the new discount       *)
(* factor, and the call of regressionFunction                              *)
Iterate(pm1, ed1, dfs, price) ==
    Regress(pm1, ed1, dfs, price,
            regressionFunction(ColumnsFrom(pm1, t + 2),
                               ColumnsFrom(samplePaths, t + 2),
                               ColumnsFrom(ed1, t + 2), dfs))

ProcessStep ==
    /\ pc = "loop"
    /\ t >= 0
    /\ IF t + 2 > nCols(samplePaths)
       THEN /\ pc' = "error"
            /\ error' = [kind |-> "IndexError", line |-> 214]
            /\ UNCHANGED <<t, payoffMatrix, exerciseDecisionMatrix,
                           discountFactors, results_dict, contValue, regDF>>
       ELSE Iterate([p \in 1..modelObj.numberOfPaths |->
                        [payoffMatrix[p] EXCEPT
                            ![t + 1] = payOff(PriceColumn(t + 2)[p])]],
                    [p \in 1..modelObj.numberOfPaths |->
                        [exerciseDecisionMatrix[p] EXCEPT
                            ![t + 1] = Indicator(payOff(PriceColumn(t + 2)[p]))]],
                    Append(discountFactors, Exp(modelObj.nSteps - t - 1)),
                    PriceColumn(t + 2))
    /\ UNCHANGED <<objs, V, eurCall, session, walkthrough>>

(* column i (0-based) times np.exp(-r * dt * i): one period short *)
DiscountColumnByIndex(entry, i) == RatMul(entry, Exp(i))

(* lines 253-254: column i (0-based) times np.exp(-r * dt * (i + 1)) *)
DiscountColumn(entry, i) == RatMul(entry, Exp(i + 1))

(* np.sum over all entries of a matrix *)
MatrixSum(m) ==
    RatSum([p \in 1..Len(m) |-> RatSum(m[p], Len(m[p]))], Len(m))

Finalize ==
    /\ pc = "loop"
    /\ t < 0
    /\ IF optionObj.nSteps > modelObj.nSteps
       THEN /\ pc' = "error"
            /\ error' = [kind |-> "IndexError", line |-> 254]
            /\ UNCHANGED <<payoffMatrix, V>>
       ELSE LET discounted ==
                    [p \in 1..modelObj.numberOfPaths |->
                        [i \in 1..modelObj.nSteps |->
                            IF i <= optionObj.nSteps
                            THEN DiscountColumn(payoffMatrix[p][i], i - 1)
                            ELSE payoffMatrix[p][i]]]
            IN  /\ pc' = "done"
                /\ payoffMatrix' = discounted
                /\ V' = [returned |-> TRUE,
                         price |-> RatDivBig(MatrixSum(discounted),
                                             Big(modelObj.numberOfPaths))]
                /\ error' = NoError
    /\ UNCHANGED <<objs, t, exerciseDecisionMatrix, discountFactors,
                   results_dict, contValue, regDF, eurCall, session, walkthrough>>

Next == Initialize \/ ProcessStep \/ Finalize

(***************************************************************************)
(* EurOption.  A call is recorded in eurCall: the method, its optionType   *)
(* argument, the exception it raises ("none" when it returns) and the      *)
(* price it returns.  The Black-Scholes formula needs the normal           *)
(* distribution function; its value is not computed here, only the fact    *)
(* that a price is returned.                                               *)
(***************************************************************************)
NoCall == [method |-> "none"]

(* an optional argument is the empty sequence for Python's None and the    *)
(* sequence of its value otherwise                                         *)
None == <<>>

OptionTypes == {"call", "put", "straddle", "PUT"}

(* np.mean over the rows of np.maximum(sign * (last price - strike), 0),   *)
(* discounted by np.exp(-r * timeToExpiry)                                 *)
MeanTerminalPayoff(isCall) ==
    LET R == nRows(samplePaths)
        C == nCols(samplePaths)
        pay(p) == LET d == IF isCall THEN samplePaths[p][C] - optionObj.strike
                           ELSE optionObj.strike - samplePaths[p][C]
                  IN  IF d > 0 THEN Rat(d) ELSE Rat(0)
    IN  RatDivBig(RatSum([p \in 1..R |-> RatMul(pay(p), Exp(optionObj.nSteps))], R),
                  Big(R))

(* priceByBSMC with the put payoff for every optionType but "call" *)
BSMCResultPutByDefault(optionType) ==
    IF optionType = "call"
    THEN [raises |-> "none", price |-> MeanTerminalPayoff(TRUE)]
    ELSE [raises |-> "none", price |-> MeanTerminalPayoff(FALSE)]

BSMCResult(optionType) ==
    IF optionType = "call"
    THEN [raises |-> "none", price |-> MeanTerminalPayoff(TRUE)]
    ELSE IF optionType = "put"
    THEN [raises |-> "none", price |-> MeanTerminalPayoff(FALSE)]
    ELSE [raises |-> "ValueError", line |-> 131]

priceByBSMC(optionType) ==
    /\ eurCall' = [method |-> "priceByBSMC", optionType |-> optionType,
                   result |-> BSMCResult(optionType)]
    /\ UNCHANGED <<objs, locals, session, walkthrough>>

(* the "call" branch reads self.stockObj.T, an attribute Stock never sets *)
BSAnalyticResult(optionType) ==
    IF optionType = "call"
    THEN [raises |-> "AttributeError", line |-> 116]
    ELSE IF optionType = "put"
    THEN [raises |-> "none", price |-> "BlackScholesPut"]
    ELSE [raises |-> "ValueError", line |-> 120]

priceByBSAnalytic(optionType) ==
    /\ eurCall' = [method |-> "priceByBSAnalytic", optionType |-> optionType,
                   result |-> BSAnalyticResult(optionType)]
    /\ UNCHANGED <<objs, locals, session, walkthrough>>

NextEur ==
    \E optionType \in OptionTypes :
        priceByBSMC(optionType) \/ priceByBSAnalytic(optionType)

(***************************************************************************)
(* Inputs.  The grid: every sample-path matrix of NumPaths paths and 1 to  *)
(* MaxSteps steps with prices in 1..MaxPrice, the strike one below the top *)
(* price, at it, or one above it (so that paths are in, at and out of the  *)
(* money), and a one-period discount factor of 1/2 (under which a payoff   *)
(* can equal the discounted payoff one step later) or 9/10.  The code      *)
(* treats the paths alike (every operation is row-wise or a sum over the   *)
(* rows), so the grid holds one matrix of each class of matrices equal up  *)
(* to the order of their rows: the one with its rows in order.             *)
(***************************************************************************)
NumPaths == 3
MaxSteps == 3
MaxPrice == 3

Prices == 1..MaxPrice

Strikes == (MaxPrice - 1)..(MaxPrice + 1)

DiscountFactors == {<<1, 2>>, <<9, 10>>}

PathRows(n) == {r \in [1..(n + 1) -> Prices] : r[1] = 2}

RECURSIVE RowLeq(_, _, _)
RowLeq(a, b, i) ==
    IF i > Len(a) THEN TRUE
    ELSE IF a[i] # b[i] THEN a[i] < b[i]
    ELSE RowLeq(a, b, i + 1)

PathMatrices(N, n) ==
    {m \in [1..N -> PathRows(n)] : \A p \in 1..(N - 1) : RowLeq(m[p], m[p + 1], 1)}

Input(s0, df, strike, N, n, paths) ==
    [stock  |-> [s0 |-> s0, df |-> df],
     option |-> [nSteps |-> n, strike |-> strike],
     model  |-> [numberOfPaths |-> N, nSteps |-> n],
     paths  |-> paths]

Start(input) ==
    /\ stockObj = input.stock
    /\ optionObj = input.option
    /\ modelObj = input.model
    /\ samplePaths = input.paths
    /\ pc = "start"
    /\ t = 0
    /\ payoffMatrix = <<>>
    /\ exerciseDecisionMatrix = <<>>
    /\ discountFactors = <<>>
    /\ results_dict = <<>>
    /\ contValue = <<>>
    /\ V = [returned |-> FALSE]
    /\ error = NoError
    /\ regDF = <<>>
    /\ eurCall = NoCall
    /\ rngState = 0
    /\ randomNumbers = <<>>
    /\ lastSeed = None
    /\ previous = NoCall
    /\ cashFlowMetricsTime3 = <<>>
    /\ optimalExercise2 = <<>>
    /\ cashFlowMetricsTime2 = <<>>
    /\ optimalExercise1 = <<>>
    /\ cashFlowMetricsTime1 = <<>>
    /\ paramsTime2 = <<>>
    /\ paramsTime1 = <<>>

InitGrid ==
    \E n \in 1..MaxSteps, strike \in Strikes, df \in DiscountFactors :
        \E m \in PathMatrices(NumPaths, n) :
            Start(Input(2, df, strike, NumPaths, n, m))

(* The worked example of the notebook, in cents: 8 paths, 3 steps, strike  *)
(* 1.10, r = 0.06 and dt = 1, with exp(-0.06) = 0.94176 = 2943/3125.       *)
ExamplePaths ==
    << <<100, 109, 108, 134>>, <<100, 116, 126, 154>>,
       <<100, 122, 107, 103>>, <<100,  93,  97,  92>>,
       <<100, 111, 156, 152>>, <<100,  76,  77,  90>>,
       <<100,  92,  84, 101>>, <<100,  88, 122, 134>> >>

ExampleInput == Input(100, <<2943, 3125>>, 110, 8, 3, ExamplePaths)

Init == InitGrid \/ Start(ExampleInput)

Spec == Init /\ [][Next]_vars

SpecEur == Init /\ [][NextEur]_vars

(***************************************************************************)
(* priceAmByLSMC statement by statement: the loop body of lines 214-246 as *)
(* one action for each assignment to payoffMatrix or                       *)
(* exerciseDecisionMatrix, with the statements between two of them (which  *)
(* write neither matrix) attached to the assignment they follow.  pc names *)
(* the line that runs next.                                                *)
(***************************************************************************)
UnchangedByLine == <<objs, V, eurCall, session, walkthrough>>

(* line 238: the exercise condition of path p; payoffMatrix[:, t] there is *)
(* the value line 214 wrote, self.payOff(samplePaths[:, t+1])              *)
condition(p) ==
    ExerciseCondition(payOff(PriceColumn(t + 2)[p]), contValue[p])

Line214 ==
    /\ pc = "loop"
    /\ t >= 0
    /\ IF t + 2 > nCols(samplePaths)
       THEN /\ pc' = "error"
            /\ error' = [kind |-> "IndexError", line |-> 214]
            /\ UNCHANGED payoffMatrix
       ELSE /\ pc' = "line215"
            /\ payoffMatrix' =
                   [p \in 1..modelObj.numberOfPaths |->
                       [payoffMatrix[p] EXCEPT
                           ![t + 1] = payOff(PriceColumn(t + 2)[p])]]
            /\ UNCHANGED error
    /\ UNCHANGED <<t, exerciseDecisionMatrix, discountFactors, results_dict,
                   contValue, regDF>>
    /\ UNCHANGED UnchangedByLine

Line215 ==
    /\ pc = "line215"
    /\ pc' = "line217"
    /\ exerciseDecisionMatrix' =
           [p \in 1..modelObj.numberOfPaths |->
               [exerciseDecisionMatrix[p] EXCEPT
                   ![t + 1] = Indicator(payoffMatrix[p][t + 1])]]
    /\ UNCHANGED <<t, payoffMatrix, discountFactors, results_dict, contValue,
                   regDF, error>>
    /\ UNCHANGED UnchangedByLine

(* lines 224-235 once regressionFunction has run *)
Fitted(reg) ==
    IF reg.raises # "none"
    THEN /\ pc' = "error"
         /\ error' = [kind |-> reg.raises, line |-> reg.line]
         /\ UNCHANGED <<results_dict, contValue, regDF>>
    ELSE IF ~HasConst(reg.params)
    THEN /\ pc' = "error"
         /\ error' = [kind |-> "KeyError", line |-> 189]
         /\ results_dict' = Append(results_dict,
                                   [step |-> t, coefficients |-> reg.params])
         /\ regDF' = reg.regression
         /\ UNCHANGED contValue
    ELSE /\ pc' = "line240"
         /\ error' = NoError
         /\ results_dict' = Append(results_dict,
                                   [step |-> t, coefficients |-> reg.params])
         /\ regDF' = reg.regression
         /\ contValue' = getContinuationValue(reg.params, PriceColumn(t + 2))

FitWith(dfs) ==
    /\ discountFactors' = dfs
    /\ Fitted(regressionFunction(ColumnsFrom(payoffMatrix, t + 2),
                                 ColumnsFrom(samplePaths, t + 2),
                                 ColumnsFrom(exerciseDecisionMatrix, t + 2),
                                 dfs))

(* lines 217-235: the discount factor, the regression, results_dict and    *)
(* the continuation values                                                 *)
Lines217To235 ==
    /\ pc = "line217"
    /\ FitWith(Append(discountFactors, Exp(modelObj.nSteps - t - 1)))
    /\ UNCHANGED <<t, payoffMatrix, exerciseDecisionMatrix>>
    /\ UNCHANGED UnchangedByLine

Line240 ==
    /\ pc = "line240"
    /\ pc' = "line241"
    /\ payoffMatrix' =
           [p \in 1..modelObj.numberOfPaths |->
               [payoffMatrix[p] EXCEPT
                   ![t + 1] = IF condition(p) THEN @ ELSE Rat(0)]]
    /\ UNCHANGED <<t, exerciseDecisionMatrix, discountFactors, results_dict,
                   contValue, regDF, error>>
    /\ UNCHANGED UnchangedByLine

Line241 ==
    /\ pc = "line241"
    /\ pc' = "line244"
    /\ exerciseDecisionMatrix' =
           [p \in 1..modelObj.numberOfPaths |->
               [exerciseDecisionMatrix[p] EXCEPT
                   ![t + 1] = IF condition(p) THEN 1 ELSE 0]]
    /\ UNCHANGED <<t, payoffMatrix, discountFactors, results_dict, contValue,
                   regDF, error>>
    /\ UNCHANGED UnchangedByLine

Line244 ==
    /\ pc = "line244"
    /\ pc' = "line246"
    /\ payoffMatrix' =
           [p \in 1..modelObj.numberOfPaths |->
               [i \in 1..modelObj.nSteps |->
                   IF condition(p) /\ i > t + 1
                   THEN Rat(0) ELSE payoffMatrix[p][i]]]
    /\ UNCHANGED <<t, exerciseDecisionMatrix, discountFactors, results_dict,
                   contValue, regDF, error>>
    /\ UNCHANGED UnchangedByLine

(* line 246, and line 211 taking the next t *)
Line246 ==
    /\ pc = "line246"
    /\ pc' = "loop"
    /\ t' = t - 1
    /\ exerciseDecisionMatrix' =
           [p \in 1..modelObj.numberOfPaths |->
               [i \in 1..modelObj.nSteps |->
                   IF condition(p) /\ i > t + 1
                   THEN 0 ELSE exerciseDecisionMatrix[p][i]]]
    /\ UNCHANGED <<payoffMatrix, discountFactors, results_dict, contValue,
                   regDF, error>>
    /\ UNCHANGED UnchangedByLine

NextLines ==
    \/ Initialize
    \/ Line214
    \/ Line215
    \/ Lines217To235
    \/ Line240
    \/ Line241
    \/ Line244
    \/ Line246
    \/ Finalize

SpecLines == Init /\ [][NextLines]_vars

(***************************************************************************)
(* A session of the caller (lines 290-304, 381-385): random numbers from   *)
(* BSModel.generateRandonNumbers, sample paths from generateSamplePaths,   *)
(* a price from priceAmByLSMC, and then either all of it again or the      *)
(* price again on the same paths.  `previous' keeps what the run before    *)
(* produced.                                                               *)
(*                                                                         *)
(* np.random is a global generator: a state, a seeding function and a      *)
(* draw that advances the state.  It is modelled by a full-period          *)
(* congruential generator on RngModulus states whose draws are the         *)
(* variates -1, 0, 1.  The instance has sigma * sqrt(dt) = ln 2 and        *)
(* r = sigma^2 / 2, so that the step of line 86 multiplies the price by    *)
(* 2^z exactly.                                                            *)
(***************************************************************************)
RngModulus == 16

SeedPaths == 3

SeedSteps == 2

MaxSeed == 2

Seeds == {None} \cup {<<seed>> : seed \in 0..MaxSeed}

(* np.random.seed(seed): the state is a function of the seed alone *)
Seeded(seed) == (7 * seed[1] + 1) % RngModulus

(* one draw advances the generator *)
Advance(state) == (5 * state + 3) % RngModulus

RECURSIVE Drawn(_, _)
Drawn(state, k) == IF k = 0 THEN state ELSE Drawn(Advance(state), k - 1)

(* the variate a draw returns *)
Variate(state) == ((state \div 2) % 3) - 1

(* lines 60-61 with the seed dropped: the generator is left as it is *)
SeedIgnored(seed, state) == state

(* lines 60-61: the generator state the draws of line 64 start from *)
SeedState(seed, state) == IF seed # None THEN Seeded(seed) ELSE state

(* line 64: np.random.normal(0, 1, (numberOfPaths, nSteps)), row by row *)
NormalMatrix(state, rows, cols) ==
    [p \in 1..rows |-> [j \in 1..cols |->
        Variate(Drawn(state, (p - 1) * cols + j))]]

generateRandonNumbers ==
    /\ pc = "session"
    /\ \E seed \in Seeds :
           /\ randomNumbers' =
                  NormalMatrix(SeedState(seed, rngState),
                               modelObj.numberOfPaths, modelObj.nSteps)
           /\ rngState' = Drawn(SeedState(seed, rngState),
                                modelObj.numberOfPaths * modelObj.nSteps)
           /\ lastSeed' = seed
    /\ pc' = "numbers"
    /\ UNCHANGED <<objs, t, payoffMatrix, exerciseDecisionMatrix,
                   discountFactors, results_dict, contValue, V, error, regDF,
                   eurCall, previous, walkthrough>>

(* line 86 for one path: the price times exp(sigma * dW) = 2^z *)
GBMStep(price, z) ==
    IF z >= 0 THEN price * (2 ^ z) ELSE price \div (2 ^ (0 - z))

(* lines 80-86: one row of samplePaths, column by column *)
RECURSIVE PathOf(_, _, _)
PathOf(start, zs, n) ==
    IF n = 0 THEN <<start>>
    ELSE Append(PathOf(start, zs, n - 1),
                GBMStep(PathOf(start, zs, n - 1)[n], zs[n]))

generateSamplePaths ==
    /\ pc = "numbers"
    /\ samplePaths' =
           [p \in 1..modelObj.numberOfPaths |->
               PathOf(stockObj.s0, randomNumbers[p], optionObj.nSteps)]
    /\ pc' = "start"
    /\ UNCHANGED <<stockObj, optionObj, modelObj, t, payoffMatrix,
                   exerciseDecisionMatrix, discountFactors, results_dict,
                   contValue, V, error, regDF, eurCall, session, walkthrough>>

(* what a run leaves for the comparison with the next one *)
Produced(again) ==
    [method |-> "priceAmByLSMC", again |-> again, seed |-> lastSeed,
     randomNumbers |-> randomNumbers, samplePaths |-> samplePaths,
     pc |-> pc, V |-> V, payoffMatrix |-> payoffMatrix,
     exerciseDecisionMatrix |-> exerciseDecisionMatrix, error |-> error]

(* a new call starts with its own locals *)
FreshLocals ==
    /\ t' = 0
    /\ payoffMatrix' = <<>>
    /\ exerciseDecisionMatrix' = <<>>
    /\ discountFactors' = <<>>
    /\ results_dict' = <<>>
    /\ contValue' = <<>>
    /\ V' = [returned |-> FALSE]
    /\ error' = NoError
    /\ regDF' = <<>>

(* the caller draws new random numbers and starts over *)
GenerateAgain ==
    /\ pc \in {"done", "error"}
    /\ previous' = Produced("generate")
    /\ pc' = "session"
    /\ randomNumbers' = <<>>
    /\ samplePaths' = <<>>
    /\ lastSeed' = None
    /\ FreshLocals
    /\ UNCHANGED <<stockObj, optionObj, modelObj, eurCall, rngState,
                   walkthrough>>

(* the caller calls priceAmByLSMC once more with the same samplePaths *)
PriceAgain ==
    /\ pc \in {"done", "error"}
    /\ previous' = Produced("price")
    /\ pc' = "start"
    /\ FreshLocals
    /\ UNCHANGED <<objs, eurCall, rngState, randomNumbers, lastSeed,
                   walkthrough>>

InitSeed ==
    \E state \in 0..(RngModulus - 1) :
        /\ stockObj = [s0 |-> 4, df |-> <<4, 5>>]
        /\ optionObj = [nSteps |-> SeedSteps, strike |-> 5]
        /\ modelObj = [numberOfPaths |-> SeedPaths, nSteps |-> SeedSteps]
        /\ samplePaths = <<>>
        /\ pc = "session"
        /\ t = 0
        /\ payoffMatrix = <<>>
        /\ exerciseDecisionMatrix = <<>>
        /\ discountFactors = <<>>
        /\ results_dict = <<>>
        /\ contValue = <<>>
        /\ V = [returned |-> FALSE]
        /\ error = NoError
        /\ regDF = <<>>
        /\ eurCall = NoCall
        /\ rngState = state
        /\ randomNumbers = <<>>
        /\ lastSeed = None
        /\ previous = NoCall
        /\ cashFlowMetricsTime3 = <<>>
        /\ optimalExercise2 = <<>>
        /\ cashFlowMetricsTime2 = <<>>
        /\ optimalExercise1 = <<>>
        /\ cashFlowMetricsTime1 = <<>>
        /\ paramsTime2 = <<>>
        /\ paramsTime1 = <<>>

NextSeed ==
    \/ generateRandonNumbers
    \/ generateSamplePaths
    \/ Initialize
    \/ ProcessStep
    \/ Finalize
    \/ GenerateAgain
    \/ PriceAgain

SpecSeed == InitSeed /\ [][NextSeed]_vars

(***************************************************************************)
(* The walk-through of the notebook (lines 577-1128): a script on a frame  *)
(* samplePaths with the columns t = 0 .. t = 3, the strike k and the rate  *)
(* r.  One action for each cell that builds a frame or fits a regression;  *)
(* pc names the first line of the cell that runs next.  Prices and cash    *)
(* flows are in cents.  No price of WalkPrices equals the strike, so the   *)
(* fit is read only at prices it was fitted on, or on rows whose answer    *)
(* is replaced by "-", where it does not depend on the unit of X.          *)
(***************************************************************************)
(* k = 1.1 *)
kStrike == 110

(* round(np.exp(-r*1), 5) and round(np.exp(-r*2), 5) with r = 0.06 *)
discountFactorTime2 == RatDivBig(Rat(94176), Big(100000))

discountFactorTime3 == RatDivBig(Rat(88692), Big(100000))

(* (k - x).clip(0) on one entry *)
Clip(x) == IF kStrike - x > 0 THEN kStrike - x ELSE 0

(* column 't = i' of samplePaths *)
At(i) == [p \in 1..Len(samplePaths) |-> samplePaths[p][i + 1]]

UnchangedByCell ==
    <<objs, t, payoffMatrix, exerciseDecisionMatrix, discountFactors,
      results_dict, contValue, V, regDF, eurCall, session>>

(* lines 636-640 *)
Cell636 ==
    /\ pc = "cell636"
    /\ pc' = "cell714"
    /\ cashFlowMetricsTime3' =
           [p \in 1..Len(samplePaths) |->
               [t1 |-> "-", t2 |-> "-", t3 |-> Clip(At(3)[p])]]
    /\ UNCHANGED <<optimalExercise2, cashFlowMetricsTime2, optimalExercise1,
                   cashFlowMetricsTime1, paramsTime2, paramsTime1, error>>
    /\ UNCHANGED UnchangedByCell

(* sm.OLS(y, X).fit() and the three reads of model.params that follow *)
FitCell(reg, fitLine, readLine) ==
    IF reg.raises # "none"
    THEN [raises |-> reg.raises, line |-> fitLine]
    ELSE IF ~HasConst(reg.params)
    THEN [raises |-> "KeyError", line |-> readLine]
    ELSE [raises |-> "none", params |-> reg.params]

Fit2(fit) ==
    IF fit.raises # "none"
    THEN /\ pc' = "error"
         /\ error' = [kind |-> fit.raises, line |-> fit.line]
         /\ UNCHANGED paramsTime2
    ELSE /\ pc' = "cell820"
         /\ paramsTime2' = fit.params
         /\ UNCHANGED error

(* lines 714-745: the regression at time 2 on the rows with X < k *)
Cell714 ==
    /\ pc = "cell714"
    /\ Fit2(FitCell(FitXY(At(2),
                          [p \in 1..Len(samplePaths) |->
                              RatMul(Rat(cashFlowMetricsTime3[p].t3),
                                     discountFactorTime2)]),
                    737, 743))
    /\ UNCHANGED <<cashFlowMetricsTime3, optimalExercise2,
                   cashFlowMetricsTime2, optimalExercise1,
                   cashFlowMetricsTime1, paramsTime1>>
    /\ UNCHANGED UnchangedByCell

(* exercise > round(continuation, 4), with exercise a whole number of      *)
(* cents and the continuation value in cents: rounding to the nearest      *)
(* 1/100 of a cent, ties to the even neighbour, gives a value below        *)
(* exercise exactly when continuation < exercise - 1/200                   *)
GreaterThanRounded(exercise, continuation) ==
    RatGt(RatDivBig(Rat(200 * exercise - 1), Big(200)), continuation)

(* lines 824 and 829: the column 'Exercise > Continuation' of one row *)
Answer(exercise, continuation) ==
    IF exercise < 0 THEN "-"
    ELSE IF GreaterThanRounded(exercise, continuation) THEN "Yes" ELSE "No"

(* lines 820-829 and 1047-1056: the frame of the decisions at one time *)
OptimalExercise(price, continuation) ==
    [p \in 1..Len(price) |->
        [Exercise |-> IF kStrike - price[p] < 0 THEN "-" ELSE kStrike - price[p],
         ExerciseGtContinuation |-> Answer(kStrike - price[p], continuation[p])]]

Cell820 ==
    /\ pc = "cell820"
    /\ pc' = "cell870"
    /\ optimalExercise2' =
           OptimalExercise(At(2), getContinuationValue(paramsTime2, At(2)))
    /\ UNCHANGED <<cashFlowMetricsTime3, cashFlowMetricsTime2,
                   optimalExercise1, cashFlowMetricsTime1, paramsTime2,
                   paramsTime1, error>>
    /\ UNCHANGED UnchangedByCell

(* lines 870-874 *)
Cell870 ==
    /\ pc = "cell870"
    /\ pc' = "cell967"
    /\ cashFlowMetricsTime2' =
           [p \in 1..Len(samplePaths) |->
               [t1 |-> "-",
                t2 |-> IF optimalExercise2[p].ExerciseGtContinuation = "Yes"
                       THEN Clip(At(2)[p]) ELSE 0,
                t3 |-> IF optimalExercise2[p].ExerciseGtContinuation = "Yes"
                       THEN 0 ELSE cashFlowMetricsTime3[p].t3]]
    /\ UNCHANGED <<cashFlowMetricsTime3, optimalExercise2, optimalExercise1,
                   cashFlowMetricsTime1, paramsTime2, paramsTime1, error>>
    /\ UNCHANGED UnchangedByCell

Fit1(fit) ==
    IF fit.raises # "none"
    THEN /\ pc' = "error"
         /\ error' = [kind |-> fit.raises, line |-> fit.line]
         /\ UNCHANGED paramsTime1
    ELSE /\ pc' = "cell1047"
         /\ paramsTime1' = fit.params
         /\ UNCHANGED error

(* lines 967-1000: the regression at time 1 on the rows with X < k *)
Cell967 ==
    /\ pc = "cell967"
    /\ Fit1(FitCell(FitXY(At(1),
                          [p \in 1..Len(samplePaths) |->
                              IF cashFlowMetricsTime2[p].t3 # 0
                              THEN RatMul(Rat(cashFlowMetricsTime2[p].t3),
                                          discountFactorTime3)
                              ELSE RatMul(Rat(cashFlowMetricsTime2[p].t2),
                                          discountFactorTime2)]),
                    992, 998))
    /\ UNCHANGED <<cashFlowMetricsTime3, optimalExercise2,
                   cashFlowMetricsTime2, optimalExercise1,
                   cashFlowMetricsTime1, paramsTime2>>
    /\ UNCHANGED UnchangedByCell

Cell1047 ==
    /\ pc = "cell1047"
    /\ pc' = "cell1111"
    /\ optimalExercise1' =
           OptimalExercise(At(1), getContinuationValue(paramsTime1, At(1)))
    /\ UNCHANGED <<cashFlowMetricsTime3, optimalExercise2,
                   cashFlowMetricsTime2, cashFlowMetricsTime1, paramsTime2,
                   paramsTime1, error>>
    /\ UNCHANGED UnchangedByCell

(* lines 1111-1118 *)
Cell1111 ==
    /\ pc = "cell1111"
    /\ pc' = "done"
    /\ cashFlowMetricsTime1' =
           [p \in 1..Len(samplePaths) |->
               [t1 |-> IF optimalExercise1[p].ExerciseGtContinuation = "Yes"
                       THEN Clip(At(1)[p]) ELSE 0,
                t2 |-> IF optimalExercise1[p].ExerciseGtContinuation = "Yes"
                       THEN 0
                       ELSE IF optimalExercise2[p].ExerciseGtContinuation = "Yes"
                       THEN Clip(At(2)[p]) ELSE 0,
                t3 |-> IF /\ optimalExercise1[p].ExerciseGtContinuation = "Yes"
                          /\ optimalExercise2[p].ExerciseGtContinuation = "Yes"
                       THEN 0 ELSE cashFlowMetricsTime3[p].t3]]
    /\ UNCHANGED <<cashFlowMetricsTime3, optimalExercise2,
                   cashFlowMetricsTime2, optimalExercise1, paramsTime2,
                   paramsTime1, error>>
    /\ UNCHANGED UnchangedByCell

WalkPaths == 3

WalkPrices == {90, 100, 120}

WalkRows == {r \in [1..4 -> WalkPrices] : r[1] = 100}

WalkMatrices ==
    {m \in [1..WalkPaths -> WalkRows] :
        \A p \in 1..(WalkPaths - 1) : RowLeq(m[p], m[p + 1], 1)}

StartWalk(paths) ==
    /\ stockObj = [s0 |-> 100, df |-> <<94176, 100000>>]
    /\ optionObj = [nSteps |-> 3, strike |-> kStrike]
    /\ modelObj = [numberOfPaths |-> Len(paths), nSteps |-> 3]
    /\ samplePaths = paths
    /\ pc = "cell636"
    /\ t = 0
    /\ payoffMatrix = <<>>
    /\ exerciseDecisionMatrix = <<>>
    /\ discountFactors = <<>>
    /\ results_dict = <<>>
    /\ contValue = <<>>
    /\ V = [returned |-> FALSE]
    /\ error = NoError
    /\ regDF = <<>>
    /\ eurCall = NoCall
    /\ rngState = 0
    /\ randomNumbers = <<>>
    /\ lastSeed = None
    /\ previous = NoCall
    /\ cashFlowMetricsTime3 = <<>>
    /\ optimalExercise2 = <<>>
    /\ cashFlowMetricsTime2 = <<>>
    /\ optimalExercise1 = <<>>
    /\ cashFlowMetricsTime1 = <<>>
    /\ paramsTime2 = <<>>
    /\ paramsTime1 = <<>>

InitWalk ==
    \/ \E m \in WalkMatrices : StartWalk(m)
    \/ StartWalk(ExamplePaths)

NextWalk ==
    \/ Cell636
    \/ Cell714
    \/ Cell820
    \/ Cell870
    \/ Cell967
    \/ Cell1047
    \/ Cell1111

SpecWalk == InitWalk /\ [][NextWalk]_vars

(***************************************************************************)
(* Two calls of priceAmByLSMC by the same caller on sample paths that      *)
(* differ in column 0 only: after the first call has ended, the caller     *)
(* replaces the column of the trade-date prices and calls again.           *)
(* `previous' keeps what the first call produced and the paths it was      *)
(* given.                                                                  *)
(***************************************************************************)
SpotColumns ==
    {[p \in 1..NumPaths |-> s0] : s0 \in Prices}
        \cup {[p \in 1..NumPaths |-> ((p - 1) % MaxPrice) + 1]}

PriceAgainWithOtherSpot ==
    /\ pc \in {"done", "error"}
    /\ previous.method = "none"
    /\ previous' = Produced("spot")
    /\ \E column \in SpotColumns :
           samplePaths' =
               [p \in 1..Len(samplePaths) |->
                   [samplePaths[p] EXCEPT ![1] = column[p]]]
    /\ pc' = "start"
    /\ FreshLocals
    /\ UNCHANGED <<stockObj, optionObj, modelObj, eurCall, rngState,
                   randomNumbers, lastSeed, walkthrough>>

InitSpot ==
    \E n \in 1..MaxSteps :
        \E m \in PathMatrices(NumPaths, n) :
            Start(Input(2, <<9, 10>>, MaxPrice, NumPaths, n, m))

NextSpot ==
    \/ Initialize
    \/ ProcessStep
    \/ Finalize
    \/ PriceAgainWithOtherSpot

SpecSpot == InitSpot /\ [][NextSpot]_vars

(* Inputs of any shape: the sample-path matrix has 1..NumPaths rows and    *)
(* 1..MaxSteps+1 columns, whatever numberOfPaths and nSteps say.           *)
InitShape ==
    \E n \in 1..MaxSteps, strike \in Strikes, df \in DiscountFactors :
        \E R \in 1..NumPaths, c \in 0..MaxSteps :
            \E m \in PathMatrices(R, c) :
                Start(Input(2, df, strike, NumPaths, n, m))

SpecShape == InitShape /\ [][Next]_vars

(* Wider inputs with fewer steps: WidePaths paths over the prices          *)
(* 1..WidePrice and 1..WideSteps steps, the strike at the top price or one *)
(* above it.  With four price levels in the money the quadratic fit no     *)
(* longer passes through every point.                                      *)
WidePaths == 4
WideSteps == 2
WidePrice == 4

WideRows(n) == {r \in [1..(n + 1) -> 1..WidePrice] : r[1] = 2}

WideMatrices(n) ==
    {m \in [1..WidePaths -> WideRows(n)] :
        \A p \in 1..(WidePaths - 1) : RowLeq(m[p], m[p + 1], 1)}

InitWide ==
    \E n \in 1..WideSteps, strike \in {WidePrice, WidePrice + 1},
       df \in DiscountFactors :
        \E m \in WideMatrices(n) :
            Start(Input(2, df, strike, WidePaths, n, m))

SpecWide == InitWide /\ [][Next]_vars

(***************************************************************************)
(* Properties.                                                             *)
(***************************************************************************)
N == modelObj.numberOfPaths

Paths == 1..N

Steps == 1..modelObj.nSteps

(* the matrices are in a state between two steps of a call that has not    *)
(* raised: after Initialize, after a completed ProcessStep, after Finalize *)
BetweenSteps == pc \in {"loop", "done"}

(* the 0-based column of the last completed ProcessStep, when there is one *)
StepDone == BetweenSteps /\ Len(results_dict) > 0

LastStep == t + 1

(* max(strike - price, 0), as an integer *)
Intrinsic(x) == IF x < optionObj.strike THEN optionObj.strike - x ELSE 0

(* the price of path p at the decision date of 0-based step s *)
PriceAt(p, s) == samplePaths[p][s + 2]

NonZeroPayoffs(p) == {i \in Steps : RatSign(payoffMatrix[p][i]) # 0}

Exercises(p) == {i \in Steps : exerciseDecisionMatrix[p][i] # 0}

(* the price of path p in the last column of samplePaths *)
LastPrice(p) == samplePaths[p][modelObj.nSteps + 1]

(* the state right after Initialize: no step run yet *)
Initialized ==
    pc = "loop" /\ t = modelObj.nSteps - 2 /\ Len(results_dict) = 0

(***************************************************************************)
(* C1.  Exercise-once invariant: after Initialize, after every completed   *)
(* ProcessStep and after Finalize, every row of exerciseDecisionMatrix has *)
(* at most one nonzero entry and every row of payoffMatrix has at most one *)
(* nonzero entry.                                                          *)
(***************************************************************************)
ExerciseOnce ==
    BetweenSteps =>
        \A p \in Paths :
            /\ Cardinality(Exercises(p)) <= 1
            /\ Cardinality(NonZeroPayoffs(p)) <= 1

(* a completed step has exercised a path early whose last column held a    *)
(* positive payoff before: lines 244 and 246 had an entry to clear         *)
ExerciseOnceWitness ==
    /\ StepDone
    /\ \E p \in Paths :
           /\ exerciseDecisionMatrix[p][LastStep + 1] = 1
           /\ Intrinsic(LastPrice(p)) > 0
           /\ Exercises(p) = {LastStep + 1}
           /\ NonZeroPayoffs(p) = {LastStep + 1}

(***************************************************************************)
(* C2.  After a completed ProcessStep at column t, path p is marked as     *)
(* exercised at t if and only if its intrinsic payoff at t is strictly     *)
(* greater than the fitted continuation value and strictly greater than 0; *)
(* so a path out of the money is not exercised even under a negative       *)
(* continuation value, and a tie continues.                                *)
(***************************************************************************)
ExerciseIffAboveContinuationAndPositive ==
    StepDone =>
        \A p \in Paths :
            exerciseDecisionMatrix[p][LastStep + 1] = 1
                <=> /\ RatGt(Rat(Intrinsic(PriceAt(p, LastStep))), contValue[p])
                    /\ Intrinsic(PriceAt(p, LastStep)) > 0

(* a completed step with a path of zero intrinsic payoff and a negative    *)
(* fitted continuation value, left unexercised                             *)
OutOfTheMoneyBelowZeroWitness ==
    /\ StepDone
    /\ \E p \in Paths :
           /\ Intrinsic(PriceAt(p, LastStep)) = 0
           /\ RatSign(contValue[p]) < 0
           /\ exerciseDecisionMatrix[p][LastStep + 1] = 0

(***************************************************************************)
(* C3.  Terminal condition: right after Initialize the last column of      *)
(* payoffMatrix is max(strike - last price, 0) on every path, the last     *)
(* column of exerciseDecisionMatrix is 1 exactly where that payoff is      *)
(* positive, every other column of both matrices is 0, and discountFactors *)
(* is empty.                                                               *)
(***************************************************************************)
TerminalCondition ==
    Initialized =>
        /\ discountFactors = <<>>
        /\ \A p \in Paths :
               /\ RatEq(payoffMatrix[p][modelObj.nSteps], Rat(Intrinsic(LastPrice(p))))
               /\ exerciseDecisionMatrix[p][modelObj.nSteps]
                      = (IF Intrinsic(LastPrice(p)) > 0 THEN 1 ELSE 0)
               /\ \A i \in Steps \ {modelObj.nSteps} :
                      /\ RatSign(payoffMatrix[p][i]) = 0
                      /\ exerciseDecisionMatrix[p][i] = 0

(* right after Initialize, with a path in the money and a path not in the  *)
(* money at expiry, and more than one column                               *)
TerminalConditionWitness ==
    /\ Initialized
    /\ modelObj.nSteps > 1
    /\ \E p, q \in Paths :
           /\ Intrinsic(LastPrice(p)) > 0
           /\ exerciseDecisionMatrix[p][modelObj.nSteps] = 1
           /\ Intrinsic(LastPrice(q)) = 0
           /\ exerciseDecisionMatrix[q][modelObj.nSteps] = 0

(***************************************************************************)
(* C4.  Every entry of payoffMatrix is >= 0 in every state of a run: after *)
(* Initialize, after each ProcessStep (completed or not) and after         *)
(* Finalize.                                                               *)
(***************************************************************************)
PayoffNonNegative ==
    \A p \in 1..nRows(payoffMatrix) :
        \A i \in 1..Len(payoffMatrix[p]) : RatSign(payoffMatrix[p][i]) >= 0

(* the run has ended with a positive discounted payoff on one path and a   *)
(* path that ended above the strike, where the payoff is clipped to 0      *)
PayoffNonNegativeWitness ==
    /\ pc = "done"
    /\ \E p, q \in Paths :
           /\ \E i \in Steps : RatSign(payoffMatrix[p][i]) > 0
           /\ LastPrice(q) > optionObj.strike
           /\ RatSign(payoffMatrix[q][modelObj.nSteps]) = 0

(***************************************************************************)
(* C5.  Finalize multiplies every column i (0-based) of payoffMatrix by    *)
(* exp(-r*dt*(i+1)), once, and returns V = the sum of all entries of the   *)
(* discounted matrix divided by the number of paths.                       *)
(***************************************************************************)
PeriodsBack(k) ==
    [num |-> Pow(Big(stockObj.df[1]), k), den |-> Pow(Big(stockObj.df[2]), k)]

PathsInTheMoney(s) == {p \in Paths : PriceAt(p, s) < optionObj.strike}

(* the step at column t was entered and raised *)
StepRaised == pc = "error" /\ error.line > 214

(***************************************************************************)
(* C6.  When fewer than 3 paths are in the money at step t, the call does  *)
(* not fail: the step completes, with continuation value 0, so that        *)
(* exactly the paths with a positive intrinsic payoff at t are exercised   *)
(* at t.                                                                   *)
(***************************************************************************)
FewInTheMoneySkipsRegression ==
    /\ StepRaised => Cardinality(PathsInTheMoney(t)) >= 3
    /\ (StepDone /\ Cardinality(PathsInTheMoney(LastStep)) < 3) =>
           \A p \in Paths :
               exerciseDecisionMatrix[p][LastStep + 1] = 1
                   <=> Intrinsic(PriceAt(p, LastStep)) > 0

(***************************************************************************)
(* C7.  When no path is in the money at step t, the step completes and the *)
(* loop carries on to t - 1, leaving the entries of payoffMatrix and       *)
(* exerciseDecisionMatrix in every column after t as they were.            *)
(***************************************************************************)
NoneInTheMoneyCarriesOn ==
    [][(pc = "loop" /\ t >= 0 /\ PathsInTheMoney(t) = {}) =>
          /\ pc' = "loop"
          /\ t' = t - 1
          /\ \A p \in Paths : \A i \in Steps :
                 i > t + 1 =>
                     /\ payoffMatrix'[p][i] = payoffMatrix[p][i]
                     /\ exerciseDecisionMatrix'[p][i] = exerciseDecisionMatrix[p][i]]_vars

(***************************************************************************)
(* C8.  When samplePaths is not of shape numberOfPaths x (nSteps + 1), the *)
(* call raises before any regression is attempted and returns no price.    *)
(***************************************************************************)
ShapeMismatch ==
    \/ nRows(samplePaths) # modelObj.numberOfPaths
    \/ nCols(samplePaths) # modelObj.nSteps + 1

ShapeMismatchFailsFast ==
    ShapeMismatch =>
        /\ pc # "done"
        /\ ~V.returned
        /\ Len(results_dict) = 0
        /\ pc = "error" => error.line < 224

(***************************************************************************)
(* C9.  A call of priceByBSMC or priceByBSAnalytic with an optionType      *)
(* other than "call" or "put" raises ValueError: no price is returned, and *)
(* the stock, the option, the model and the sample paths stay as they      *)
(* were.                                                                   *)
(***************************************************************************)
InvalidOptionTypeFails ==
    [][(eurCall' # eurCall /\ eurCall'.optionType \notin {"call", "put"}) =>
          /\ eurCall'.result.raises = "ValueError"
          /\ "price" \notin DOMAIN eurCall'.result
          /\ UNCHANGED objs]_vars

(* priceByBSAnalytic has been called with "straddle" and has raised *)
InvalidOptionTypeWitness ==
    /\ eurCall.method = "priceByBSAnalytic"
    /\ eurCall.optionType = "straddle"
    /\ eurCall.result.raises = "ValueError"

(***************************************************************************)
(* C10.  The worked example (8 paths, 3 steps, strike 1.10, r = 0.06):     *)
(* the call never raises; the terminal payoffs are 0, 0, .07, .18, 0, .20, *)
(* .09, 0; the step for time 2 exercises exactly paths 4, 6 and 7; and the *)
(* final exercise matrix is the stopping rule of the notebook: paths 4, 6, *)
(* 7, 8 at time 1, path 3 at time 3, paths 1, 2, 5 never.                  *)
(***************************************************************************)
IsExample ==
    /\ samplePaths = ExamplePaths
    /\ optionObj = ExampleInput.option
    /\ stockObj = ExampleInput.stock

ExampleTerminalPayoffs == <<0, 0, 7, 18, 0, 20, 9, 0>>

StoppingRule ==
    << <<0, 0, 0>>, <<0, 0, 0>>, <<0, 0, 1>>, <<1, 0, 0>>,
       <<0, 0, 0>>, <<1, 0, 0>>, <<1, 0, 0>>, <<1, 0, 0>> >>

EuropeanPutPrice == BSMCResult("put").price

(***************************************************************************)
(* C11.  The price priceAmByLSMC returns is at least the European put      *)
(* price priceByBSMC computes on the same paths: the early-exercise        *)
(* premium is never negative.                                              *)
(***************************************************************************)
AmericanAtLeastEuropean ==
    (pc = "done" /\ V.returned) => ~RatGt(EuropeanPutPrice, V.price)

(* a ProcessStep has just completed: the loop is at its head again *)
StepJustDone == pc = "loop" /\ Len(results_dict) > 0

(***************************************************************************)
(* C14.  When path p is exercised at ProcessStep(t), then after the step   *)
(* payoffMatrix[p, t] is the intrinsic payoff max(strike - price, 0) at    *)
(* the decision date, exerciseDecisionMatrix[p, t] is 1, and both matrices *)
(* are 0 on row p in every column after t.                                 *)
(***************************************************************************)
ExerciseSetsPayoffAndClearsLater ==
    StepJustDone =>
        \A p \in Paths :
            exerciseDecisionMatrix[p][LastStep + 1] = 1 =>
                /\ RatEq(payoffMatrix[p][LastStep + 1],
                         Rat(Intrinsic(PriceAt(p, LastStep))))
                /\ \A i \in Steps :
                       i > LastStep + 1 =>
                           /\ RatSign(payoffMatrix[p][i]) = 0
                           /\ exerciseDecisionMatrix[p][i] = 0

(* the first of two steps has just exercised a path that was in the money  *)
(* at expiry: its terminal cash flow has been cleared                      *)
ExerciseSetsPayoffWitness ==
    /\ StepJustDone
    /\ modelObj.nSteps = 3
    /\ LastStep = 1
    /\ \E p \in Paths :
           /\ exerciseDecisionMatrix[p][2] = 1
           /\ Intrinsic(LastPrice(p)) > 0
           /\ RatSign(payoffMatrix[p][2]) > 0
           /\ RatSign(payoffMatrix[p][3]) = 0

(***************************************************************************)
(* C15.  When path p is not exercised at ProcessStep(t), then after the    *)
(* step payoffMatrix[p, t] = 0 and exerciseDecisionMatrix[p, t] = 0, and   *)
(* the entries of row p in every column after t are what they were before  *)
(* the step, whatever the step decides for the other paths; the columns    *)
(* before t are not written.                                               *)
(***************************************************************************)
NoExerciseLeavesLaterColumns ==
    [][(pc = "loop" /\ t >= 0 /\ pc' = "loop") =>
          \A p \in Paths :
              /\ \A i \in Steps :
                     i < t + 1 =>
                         /\ payoffMatrix'[p][i] = payoffMatrix[p][i]
                         /\ exerciseDecisionMatrix'[p][i] = exerciseDecisionMatrix[p][i]
              /\ exerciseDecisionMatrix'[p][t + 1] = 0 =>
                     /\ RatSign(payoffMatrix'[p][t + 1]) = 0
                     /\ \A i \in Steps :
                            i > t + 1 =>
                                /\ payoffMatrix'[p][i] = payoffMatrix[p][i]
                                /\ exerciseDecisionMatrix'[p][i]
                                       = exerciseDecisionMatrix[p][i]]_vars

(* a step has just exercised one path and continued another, which keeps   *)
(* its later cash flow                                                     *)
NoExerciseWitness ==
    /\ StepJustDone
    /\ \E p, q \in Paths :
           /\ exerciseDecisionMatrix[p][LastStep + 1] = 1
           /\ exerciseDecisionMatrix[q][LastStep + 1] = 0
           /\ Intrinsic(PriceAt(q, LastStep)) > 0
           /\ \E i \in Steps :
                  /\ i > LastStep + 1
                  /\ RatSign(payoffMatrix[q][i]) > 0
                  /\ exerciseDecisionMatrix[q][i] = 1

(***************************************************************************)
(* C18.  The loop processes the steps t = nSteps-2, nSteps-3, ..., 0 in    *)
(* strictly decreasing order, each once and one after the other; after the *)
(* step for t = 0 Finalize runs and the call ends, nSteps-1 regressions    *)
(* having been made.                                                       *)
(***************************************************************************)
BackwardInduction ==
    /\ [](/\ \A k \in 1..Len(results_dict) :
                 results_dict[k].step = modelObj.nSteps - 1 - k
          /\ pc = "loop" =>
                 /\ t >= -1
                 /\ t = modelObj.nSteps - 2 - Len(results_dict)
          /\ pc = "done" =>
                 /\ t = -1
                 /\ Len(results_dict) = modelObj.nSteps - 1)
    /\ [][/\ pc # "done"
          /\ (pc = "loop" /\ pc' = "loop") =>
                 /\ t >= 0
                 /\ t' = t - 1
                 /\ results_dict' = Append(results_dict, results_dict'[Len(results_dict')])
                 /\ results_dict'[Len(results_dict')].step = t
          /\ pc' = "done" => (pc = "loop" /\ t = -1 /\ results_dict' = results_dict)]_vars

(* a call of three steps has returned after the regressions for t = 1 and  *)
(* t = 0, in that order                                                    *)
BackwardInductionWitness ==
    /\ pc = "done"
    /\ modelObj.nSteps = 3
    /\ Len(results_dict) = 2
    /\ results_dict[1].step = 1
    /\ results_dict[2].step = 0

(***************************************************************************)
(* C19.  After Initialize and after every completed ProcessStep the two    *)
(* matrices agree: on every path and in every column the exercise          *)
(* indicator is 0 or 1, and it is 1 exactly where the payoff is positive.  *)
(***************************************************************************)
IndicatorMatchesPayoff ==
    BetweenSteps =>
        \A p \in Paths : \A i \in Steps :
            /\ exerciseDecisionMatrix[p][i] \in {0, 1}
            /\ exerciseDecisionMatrix[p][i] = 1 <=> RatSign(payoffMatrix[p][i]) > 0

(* a step has just completed on a path that is in the money at the         *)
(* decision date and continues: line 215 had marked it, line 241 unmarks   *)
(* it                                                                      *)
IndicatorMatchesPayoffWitness ==
    /\ StepJustDone
    /\ \E p \in Paths :
           /\ Intrinsic(PriceAt(p, LastStep)) > 0
           /\ exerciseDecisionMatrix[p][LastStep + 1] = 0
           /\ RatSign(payoffMatrix[p][LastStep + 1]) = 0
           /\ \E i \in Steps : exerciseDecisionMatrix[p][i] = 1

(* the 0-based step of the last call of regressionFunction that returned,  *)
(* whose frame regDF holds                                                 *)
FrameReturned == Len(results_dict) > 0

FrameStep == results_dict[Len(results_dict)].step

(* the path (1-based) of row i of regDF *)
FramePath(i) == regDF[i].index + 1

(***************************************************************************)
(* C16.  At ProcessStep(t) the dependent variable Y of a path is its one   *)
(* already-decided future cash flow discounted back to the decision date:  *)
(* there are as many discount factors as future columns, the j-th being    *)
(* exp(-r*dt*j); at most one column s > t holds a cash flow of the path;   *)
(* and Y is that cash flow times exp(-r*dt*(s-t)).                         *)
(***************************************************************************)
FutureCashFlows(p) ==
    {i \in Steps : /\ i > t + 1
                   /\ RatSign(payoffMatrix[p][i]) # 0
                   /\ exerciseDecisionMatrix[p][i] # 0}

DiscountedFutureCashFlow(p) ==
    RatSum([i \in Steps |->
               IF i \in FutureCashFlows(p)
               THEN RatMul(payoffMatrix[p][i], PeriodsBack(i - (t + 1)))
               ELSE Rat(0)],
           modelObj.nSteps)

DependentVariableIsDiscountedCashFlow ==
    [][(pc = "loop" /\ t >= 0 /\ Len(results_dict') > Len(results_dict)) =>
          /\ Len(discountFactors') = modelObj.nSteps - (t + 1)
          /\ \A j \in 1..Len(discountFactors') :
                 RatEq(discountFactors'[j], PeriodsBack(j))
          /\ \A i \in 1..Len(regDF') :
                 /\ Cardinality(FutureCashFlows(regDF'[i].index + 1)) <= 1
                 /\ RatEq(regDF'[i].Y,
                          DiscountedFutureCashFlow(regDF'[i].index + 1))]_vars

(* the step for t = 0 of three has completed with two paths in the frame,  *)
(* one whose cash flow lies one column ahead and one whose cash flow lies  *)
(* two columns ahead                                                       *)
DependentVariableWitness ==
    /\ StepJustDone
    /\ modelObj.nSteps = 3
    /\ FrameStep = 0
    /\ \E i, k \in 1..Len(regDF) :
           /\ exerciseDecisionMatrix[FramePath(i)][1] = 0
           /\ RatSign(payoffMatrix[FramePath(i)][2]) > 0
           /\ RatEq(regDF[i].Y,
                    RatMul(payoffMatrix[FramePath(i)][2], PeriodsBack(1)))
           /\ exerciseDecisionMatrix[FramePath(k)][1] = 0
           /\ RatSign(payoffMatrix[FramePath(k)][3]) > 0
           /\ RatEq(regDF[k].Y,
                    RatMul(payoffMatrix[FramePath(k)][3], PeriodsBack(2)))

(***************************************************************************)
(* C17.  The rows that enter the fit of ProcessStep(t) are exactly the     *)
(* paths whose price at the decision date is strictly below the strike,    *)
(* each once, and the fitted coefficients are a function of those rows     *)
(* alone: fitting the frame by itself gives the same coefficients, so the  *)
(* rows of the other paths contribute nothing.                             *)
(***************************************************************************)
OnlyInTheMoneyRowsEnterTheFit ==
    FrameReturned =>
        /\ {FramePath(i) : i \in 1..Len(regDF)} = PathsInTheMoney(FrameStep)
        /\ Len(regDF) = Cardinality(PathsInTheMoney(FrameStep))
        /\ \A i \in 1..Len(regDF) :
               /\ regDF[i].X = PriceAt(FramePath(i), FrameStep)
               /\ regDF[i].X < optionObj.strike
        /\ results_dict[Len(results_dict)].coefficients
               = FitXY([i \in 1..Len(regDF) |-> regDF[i].X],
                       [i \in 1..Len(regDF) |-> regDF[i].Y]).params

(* a step has completed with one path at the strike or above left out of   *)
(* the frame and the others in it                                          *)
OnlyInTheMoneyWitness ==
    /\ StepJustDone
    /\ Len(regDF) = N - 1
    /\ \E p \in Paths :
           /\ PriceAt(p, FrameStep) >= optionObj.strike
           /\ \A i \in 1..Len(regDF) : FramePath(i) # p

(***************************************************************************)
(* C13.  At no point of a run of priceAmByLSMC, the points between two     *)
(* assignments inside one step included, does a path hold a nonzero cash   *)
(* flow in the column of the step and in a later column, or a set          *)
(* indicator in the column of the step and in a later column.              *)
(***************************************************************************)
InsideStep ==
    pc \in {"line215", "line217", "line240", "line241", "line244", "line246"}

NoCashFlowInStepColumnAndLater ==
    InsideStep =>
        \A p \in Paths :
            /\ ~(/\ t + 1 \in NonZeroPayoffs(p)
                 /\ \E i \in NonZeroPayoffs(p) : i > t + 1)
            /\ ~(/\ t + 1 \in Exercises(p)
                 /\ \E i \in Exercises(p) : i > t + 1)

(***************************************************************************)
(* C12.  Reproducibility.  A run that draws its random numbers with the    *)
(* same seed (not None) as the run before has the same random-number       *)
(* matrix and the same sample paths; and a run of priceAmByLSMC on the     *)
(* same sample paths as the run before ends the same way, with the same    *)
(* price, payoff matrix and exercise matrix, whatever the run before left  *)
(* behind.                                                                 *)
(***************************************************************************)
HasPrevious == previous.method = "priceAmByLSMC"

SameSeedAsPrevious ==
    /\ HasPrevious
    /\ previous.again = "generate"
    /\ lastSeed # None
    /\ previous.seed = lastSeed

Reproducible ==
    /\ (SameSeedAsPrevious /\ pc # "session") =>
           randomNumbers = previous.randomNumbers
    /\ (SameSeedAsPrevious /\ pc \notin {"session", "numbers"}) =>
           samplePaths = previous.samplePaths
    /\ (/\ HasPrevious
        /\ pc \in {"done", "error"}
        /\ samplePaths = previous.samplePaths) =>
           /\ pc = previous.pc
           /\ V = previous.V
           /\ payoffMatrix = previous.payoffMatrix
           /\ exerciseDecisionMatrix = previous.exerciseDecisionMatrix
           /\ error = previous.error

(* two complete runs with the same seed, the second started from the       *)
(* generator state the first left, both ending with the same positive      *)
(* price on paths that are not all alike                                   *)
ReproducibleWitness ==
    /\ SameSeedAsPrevious
    /\ pc = "done"
    /\ V.returned
    /\ RatSign(V.price) > 0
    /\ previous.V = V
    /\ \E p, q \in 1..Len(samplePaths) : samplePaths[p] # samplePaths[q]

(***************************************************************************)
(* C20.  In the final cash-flow frame of the walk-through,                 *)
(* cashFlowMetricsTime1, a path with "Yes" at time 1 has 0 at time 2 and   *)
(* time 3, a path with "Yes" at time 2 has 0 at time 3, and every row has  *)
(* at most one nonzero entry, whatever the sample paths.                   *)
(***************************************************************************)
WalkDone == pc = "done" /\ Len(cashFlowMetricsTime1) > 0

NonZeroEntries(row) ==
    {c \in {"t1", "t2", "t3"} : row[c] # 0}

FinalCashFlowOncePerPath ==
    WalkDone =>
        \A p \in 1..Len(cashFlowMetricsTime1) :
            /\ optimalExercise1[p].ExerciseGtContinuation = "Yes" =>
                   /\ cashFlowMetricsTime1[p].t2 = 0
                   /\ cashFlowMetricsTime1[p].t3 = 0
            /\ optimalExercise2[p].ExerciseGtContinuation = "Yes" =>
                   cashFlowMetricsTime1[p].t3 = 0
            /\ Cardinality(NonZeroEntries(cashFlowMetricsTime1[p])) <= 1

(***************************************************************************)
(* C21.  No cash flow is lost by the backward induction: when              *)
(* priceAmByLSMC has returned, every path whose intrinsic payoff at expiry *)
(* is positive has exactly one set exercise indicator, and every path      *)
(* without a set indicator has intrinsic payoff 0 at expiry.               *)
(***************************************************************************)
Returned == pc = "done" /\ V.returned

NoCashFlowLost ==
    Returned =>
        \A p \in Paths :
            /\ Intrinsic(LastPrice(p)) > 0 => Cardinality(Exercises(p)) = 1
            /\ Exercises(p) = {} => Intrinsic(LastPrice(p)) = 0

(* a call has returned after at least one step with a path in the money at *)
(* the first decision date that was continued to expiry, a path with a     *)
(* positive payoff at expiry that was exercised early, and a path never    *)
(* exercised                                                               *)
NoCashFlowLostWitness ==
    /\ Returned
    /\ modelObj.nSteps >= 2
    /\ \E p, q, u \in Paths :
           /\ Intrinsic(LastPrice(p)) > 0
           /\ PriceAt(p, 0) < optionObj.strike
           /\ Exercises(p) = {modelObj.nSteps}
           /\ Intrinsic(LastPrice(q)) > 0
           /\ \E i \in Steps : i < modelObj.nSteps /\ Exercises(q) = {i}
           /\ Exercises(u) = {}

(***************************************************************************)
(* C22.  priceAmByLSMC neither reads column 0 of samplePaths nor writes    *)
(* samplePaths.  While a call runs samplePaths stays as it was given; the  *)
(* step for t = 0, the last one, decides on column 1 and fits on column 1, *)
(* as every step for t decides and fits on column t + 1; and a second call *)
(* on sample paths that differ from the first in column 0 only ends the    *)
(* same way with the same price, payoff matrix and exercise matrix.        *)
(***************************************************************************)
OtherSpotBefore == previous.method = "priceAmByLSMC" /\ previous.again = "spot"

SameOutsideColumnZero(a, b) ==
    /\ Len(a) = Len(b)
    /\ \A p \in 1..Len(a) :
           /\ Len(a[p]) = Len(b[p])
           /\ \A j \in 2..Len(a[p]) : a[p][j] = b[p][j]

SpotIsNeverUsed ==
    /\ [](StepJustDone =>
             /\ \A i \in 1..Len(regDF) :
                    regDF[i].X = samplePaths[FramePath(i)][FrameStep + 2]
             /\ \A p \in Paths :
                    FrameStep + 1 \in Exercises(p) =>
                        RatEq(payoffMatrix[p][FrameStep + 1],
                              Rat(Intrinsic(samplePaths[p][FrameStep + 2]))))
    /\ []((OtherSpotBefore /\ pc \in {"done", "error"}) =>
             /\ SameOutsideColumnZero(samplePaths, previous.samplePaths)
             /\ pc = previous.pc
             /\ V = previous.V
             /\ payoffMatrix = previous.payoffMatrix
             /\ exerciseDecisionMatrix = previous.exerciseDecisionMatrix
             /\ error = previous.error)
    /\ [][pc \notin {"done", "error"} => samplePaths' = samplePaths]_vars

(* the second call has returned a positive price after a step for t = 0    *)
(* that exercised a path, on sample paths whose column 0 is not the one of *)
(* the first call                                                          *)
SpotIsNeverUsedWitness ==
    /\ OtherSpotBefore
    /\ Returned
    /\ RatSign(V.price) > 0
    /\ modelObj.nSteps >= 2
    /\ \E p \in Paths :
           /\ samplePaths[p][1] # previous.samplePaths[p][1]
           /\ 1 \in Exercises(p)

(***************************************************************************)
(* C23.  With nSteps = 1 priceAmByLSMC runs no step of the loop and no     *)
(* regression: Initialize is followed by Finalize.  The price it returns   *)
(* is the price priceByBSMC gives for the put on the same paths, the mean  *)
(* over the paths of max(strike - samplePaths[p, 1], 0) times the discount *)
(* factor of one period, which is then the whole time to expiry.           *)
(***************************************************************************)
OneStep == modelObj.nSteps = 1 /\ optionObj.nSteps = 1

SumOfIntrinsic ==
    BigSum([p \in Paths |-> Big(Intrinsic(samplePaths[p][2]))], N)

MeanDiscountedIntrinsic ==
    [num |-> Mul(SumOfIntrinsic, Big(stockObj.df[1])),
     den |-> Mul(Big(N), Big(stockObj.df[2]))]

OneStepIsEuropean ==
    /\ []((OneStep /\ BetweenSteps) =>
             /\ Len(results_dict) = 0
             /\ regDF = <<>>
             /\ t = -1)
    /\ []((OneStep /\ Returned) =>
             /\ RatEq(V.price, EuropeanPutPrice)
             /\ RatEq(V.price, MeanDiscountedIntrinsic))
    /\ [][(OneStep /\ pc = "loop") => pc' = "done"]_vars

(* a call with nSteps = 1 has returned a positive price on paths of which  *)
(* one ends in the money and one does not                                  *)
OneStepIsEuropeanWitness ==
    /\ OneStep
    /\ Returned
    /\ RatSign(V.price) > 0
    /\ \E p, q \in Paths :
           /\ Intrinsic(samplePaths[p][2]) > 0
           /\ Intrinsic(samplePaths[q][2]) = 0

(***************************************************************************)
(* C24.  priceByBSAnalytic called with "call" or with "put" returns a      *)
(* price and raises no error.                                              *)
(***************************************************************************)
AnalyticPricesCallAndPut ==
    (/\ eurCall.method = "priceByBSAnalytic"
     /\ eurCall.optionType \in {"call", "put"}) =>
        /\ eurCall.result.raises = "none"
        /\ "price" \in DOMAIN eurCall.result

====
